---- MODULE Spec2Model ----
(***************************************************************************)
(* The saga execution engine of sur-ser/patterns: UserCreationSaga         *)
(* (addStep, run) driving a CommandBus (register, execute).                *)
(*                                                                         *)
(* run() is an async function.  It executes synchronously up to its next   *)
(* `await commandBus.execute(...)`, where it suspends until the promise    *)
(* returned by execute settles.  Each action below is one such synchronous *)
(* stretch: the call of run() up to its first await, or the resumption of  *)
(* a suspended run (with the awaited promise fulfilled or rejected) up to  *)
(* the next await or to the end of run().                                  *)
(***************************************************************************)
EXTENDS Naturals, Sequences, FiniteSets, TLC

\* ------------------------------------------------------------------ bounds

\* Longest saga definition built with addStep.
MaxSteps == 3

\* Number of run() calls made on the saga.
MaxRuns == 2

\* Activations of run() that can be live at once.
MaxFrames == 2

\* Number of direct commandBus.execute calls a caller makes.
MaxCalls == 3

Frames == 1..MaxFrames

\* ------------------------------------------------------------ JS values

\* An absent optional value (`compensate?: Command` left out).
undefined == [type |-> "undefined"]

\* No handler found by Map.get / no handler invoked.
NoHandler == "undefined"

\* No error.
NoReason == [name |-> "none"]

CreateUserCommand(name, email) ==
    [type |-> "CREATE_USER", name |-> name, email |-> email]

RollbackUserCreationCommand(userId) ==
    [type |-> "ROLLBACK_USER_CREATION", userId |-> userId]

\* The commands the caller builds steps from (those of the example usage).
Commands ==
    { CreateUserCommand("John Doe", "john@example.com"),
      RollbackUserCreationCommand("user123") }

CommandTypes == { c.type : c \in Commands }

\* Implementations of CommandHandler<T>: opaque to the bus, each handle()
\* call returns a promise that is fulfilled or rejected.
HandlerIds == {"h1", "h2"}

\* The handlers of the saga example, which work on its repository.
RepositoryHandlers == {"CreateUserHandler", "RollbackUserCreationHandler"}

User(name, email) == [name |-> name, email |-> email]

\* The error thrown by execute() when no handler is registered.
NoHandlerError(type) ==
    [name |-> "Error", message |-> "No handler registered for", type |-> type]

\* The error a handler's handle(command) rejects with when it fails.
HandlerFailure(handler, command) ==
    [name |-> "HandlerFailure", handler |-> handler, command |-> command]

\* ------------------------------------------------------------- JS Map

\* A Map is its list of entries, in insertion order, one entry per key.
MapHas(m, key) == \E i \in 1..Len(m) : m[i].key = key

MapGet(m, key) ==
    IF MapHas(m, key)
    THEN m[CHOOSE i \in 1..Len(m) : m[i].key = key].value
    ELSE NoHandler

\* Map.set that keeps the value of a key already present.
MapSetKeepsFirst(m, key, value) ==
    IF MapHas(m, key) THEN m
    ELSE Append(m, [key |-> key, value |-> value])

MapSet(m, key, value) ==
    IF MapHas(m, key)
    THEN [i \in 1..Len(m) |->
             IF m[i].key = key THEN [key |-> key, value |-> value] ELSE m[i]]
    ELSE Append(m, [key |-> key, value |-> value])

\* Map.delete that removes the first entry, whatever its key.
MapDeleteFirst(m, key) ==
    IF m = <<>> THEN m ELSE Tail(m)

MapDelete(m, key) ==
    LET IsOther(entry) == entry.key # key
    IN  SelectSeq(m, IsOther)

\* Array.prototype.reverse
Reverse(s) == [i \in 1..Len(s) |-> s[Len(s) + 1 - i]]

\* ------------------------------------------------------------------ state

VARIABLES
    steps,           \* UserCreationSaga.steps
    handlers,        \* CommandBus.handlers
    runs,            \* the activations of run(): one record per frame
    dispatched,      \* per frame, the calls made to commandBus.execute
    lastRegistered,  \* per command type, the handler of the latest register call
    replaced,        \* the command types registered more than once
    runsStarted,     \* number of run() calls made so far
    startedWith,     \* per frame, the steps the saga had when run() was called
    users,           \* InMemoryUserRepository.users (the saga's repository)
    mediator         \* the mediator example: its repository and the emails sent

vars == <<steps, handlers, runs, dispatched, lastRegistered, replaced,
          runsStarted, startedWith, users, mediator>>

NoStep == [execute |-> undefined, compensate |-> undefined]

\* The promise returned by commandBus.execute, with the handler call behind it.
NoPromise ==
    [command |-> undefined, handler |-> NoHandler, invoked |-> 0,
     status |-> "none", cause |-> NoReason, reason |-> NoReason]

\* A frame before run() is called on it.
IdleFrame ==
    [pc |-> "idle", it |-> 0, step |-> NoStep, executedSteps |-> <<>>,
     promise |-> NoPromise, result |-> [status |-> "none", reason |-> NoReason]]

Init ==
    /\ steps = <<>>
    /\ handlers = <<>>
    /\ runs = [f \in Frames |-> IdleFrame]
    /\ dispatched = [f \in Frames |-> <<>>]
    /\ lastRegistered = [t \in CommandTypes |-> NoHandler]
    /\ replaced = {}
    /\ runsStarted = 0
    /\ startedWith = [f \in Frames |-> <<>>]
    /\ users = <<>>
    /\ mediator = [users |-> <<>>, outbox |-> <<>>, calls |-> <<>>]

\* ------------------------------------------------------------ CommandBus

\* register(commandType, handler)
Register(commandType, handler) ==
    /\ handlers' = MapSet(handlers, commandType, handler)
    /\ lastRegistered' = [lastRegistered EXCEPT ![commandType] = handler]
    /\ replaced' = IF lastRegistered[commandType] \notin {NoHandler, handler}
                   THEN replaced \cup {commandType} ELSE replaced
    /\ UNCHANGED <<steps, runs, dispatched, runsStarted, startedWith, users,
                   mediator>>

\* execute(command), its synchronous part: the lookup, the throw when no
\* handler is registered, the call of handler.handle(command).
Execute(command) ==
    LET handler == MapGet(handlers, command.type)
    IN  IF handler = NoHandler
        THEN [command |-> command, handler |-> NoHandler, invoked |-> 0,
              status |-> "rejected", cause |-> NoReason,
              reason |-> NoHandlerError(command.type)]
        ELSE [command |-> command, handler |-> handler, invoked |-> 1,
              status |-> "pending", cause |-> NoReason, reason |-> NoReason]

\* A rejection that wraps the handler's error with the command's type.
RethrowWrapped(command, cause) ==
    [name |-> "HandlerFailed", kind |-> command.type, cause |-> cause]

\* What execute() rejects with when `await handler.handle(command)` throws
\* `cause`: there is no try/catch around the await, the error passes through.
Rethrow(command, cause) == cause

\* The ways the promise of an execute() call can settle.
\* A call the caller goes on from without its promise having settled.
FulfilledUnawaited(p) == p

Fulfilled(p) == [p EXCEPT !.status = "fulfilled"]

Rejected(p) ==
    IF p.status = "rejected"
    THEN p
    ELSE LET cause == HandlerFailure(p.handler, p.command)
         IN  [p EXCEPT !.status = "rejected", !.cause = cause,
                       !.reason = Rethrow(p.command, cause)]

\* Whether the promise of an execute() call can be rejected: it is already
\* (no handler), or its handler is one that can fail.  The handlers of the
\* saga example only call Map.set and Map.delete, which do not throw.
MayReject(p) ==
    p.status = "rejected" \/ p.handler \in HandlerIds

\* ------------------------------------------------------ UserCreationSaga

\* addStep(execute, compensate?)
AddStep(execute, compensate) ==
    /\ steps' = Append(steps, [execute |-> execute, compensate |-> compensate])
    /\ UNCHANGED <<handlers, runs, dispatched, lastRegistered, replaced,
                   runsStarted, startedWith, users, mediator>>

\* run() returns normally: its promise is fulfilled.
Return(fr) ==
    [fr EXCEPT !.pc = "done", !.promise = NoPromise,
               !.result = [status |-> "fulfilled", reason |-> NoReason]]

\* An error that leaves the run suspended for ever.
ThrowNeverSettles(fr, reason) ==
    [fr EXCEPT !.promise = NoPromise]

\* An error leaves run(): its promise is rejected with it.
Throw(fr, reason) ==
    [fr EXCEPT !.pc = "done", !.promise = NoPromise,
               !.result = [status |-> "rejected", reason |-> reason]]

\* The index of the next executed step, after position `from`, that has a
\* compensate command; 0 when there is none.
NextCompensable(executedSteps, from) ==
    LET later == { j \in (from + 1)..Len(executedSteps) :
                      executedSteps[j].compensate # undefined }
    IN  IF later = {} THEN 0
        ELSE CHOOSE j \in later : \A k \in later : j <= k

\* The loop of the catch block, from iterator position fr.it, up to its next
\* await or to the end of run().
CompensationLoop(fr) ==
    LET j == NextCompensable(fr.executedSteps, fr.it)
    IN  IF j = 0
        THEN Return(fr)
        ELSE [fr EXCEPT !.pc = "compensate", !.it = j,
                        !.step = fr.executedSteps[j],
                        !.promise = Execute(fr.executedSteps[j].compensate)]

\* The catch block entered without reversing the executed steps.
CatchInExecutionOrder(fr) ==
    CompensationLoop([fr EXCEPT !.it = 0])

\* A record of executed steps that all the runs of the saga share.
CatchSharedRecord(fr) ==
    LET g == CHOOSE g \in Frames : \A h \in Frames :
                 Len(runs[h].executedSteps) <= Len(runs[g].executedSteps)
    IN  CompensationLoop([fr EXCEPT
            !.executedSteps = Reverse(runs[g].executedSteps), !.it = 0])

\* The entry of the catch block: the executed steps are reversed in place.
Catch(fr) ==
    CompensationLoop([fr EXCEPT !.executedSteps = Reverse(fr.executedSteps),
                                !.it = 0])

\* The try loop walking the steps from the last to the first.
ForwardLoopFromEnd(fr) ==
    IF fr.it < Len(steps)
    THEN [fr EXCEPT !.pc = "forward", !.it = fr.it + 1,
                    !.step = steps[Len(steps) - fr.it],
                    !.promise = Execute(steps[Len(steps) - fr.it].execute)]
    ELSE Return(fr)

\* The try loop followed by the compensations whatever its outcome.
ForwardLoopThenCompensates(fr) ==
    IF fr.it < Len(steps)
    THEN [fr EXCEPT !.pc = "forward", !.it = fr.it + 1,
                    !.step = steps[fr.it + 1],
                    !.promise = Execute(steps[fr.it + 1].execute)]
    ELSE Catch(fr)

\* The try loop refusing a saga without steps.
ForwardLoopRefusesEmpty(fr) ==
    IF fr.it < Len(steps)
    THEN [fr EXCEPT !.pc = "forward", !.it = fr.it + 1,
                    !.step = steps[fr.it + 1],
                    !.promise = Execute(steps[fr.it + 1].execute)]
    ELSE IF Len(steps) = 0
         THEN Throw(fr, [name |-> "Error", message |-> "Saga has no steps",
                         type |-> "undefined"])
         ELSE Return(fr)

\* The try loop recording a step when it dispatches its forward action.
ForwardLoopPushesFirst(fr) ==
    IF fr.it < Len(steps)
    THEN [fr EXCEPT !.pc = "forward", !.it = fr.it + 1,
                    !.step = steps[fr.it + 1],
                    !.executedSteps = Append(@, steps[fr.it + 1]),
                    !.promise = Execute(steps[fr.it + 1].execute)]
    ELSE Return(fr)

\* The loop of the try block, from iterator position fr.it, up to its next
\* await or to the end of run().
ForwardLoop(fr) ==
    IF fr.it < Len(steps)
    THEN [fr EXCEPT !.pc = "forward", !.it = fr.it + 1,
                    !.step = steps[fr.it + 1],
                    !.promise = Execute(steps[fr.it + 1].execute)]
    ELSE Return(fr)

\* An entry of the record of calls to execute: the phase of the caller, the
\* call, and the handler most recently registered for the command's type
\* when the call was made.
Entry(phase, p) ==
    [phase |-> phase, call |-> p, latest |-> lastRegistered[p.command.type]]

\* The record of the calls to execute: the awaited call is settled as `p`,
\* and the call the frame `fr` now awaits, if any, is added.
Record(log, p, fr) ==
    LET settled == IF p = NoPromise THEN log
                   ELSE [log EXCEPT ![Len(log)].call = p]
    IN  IF fr.promise = NoPromise THEN settled
        ELSE Append(settled, Entry(fr.pc, fr.promise))

\* The synchronous part of handler.handle(command), run inside the call of
\* execute: CreateUserHandler saves the user under its email,
\* RollbackUserCreationHandler deletes the entry keyed by the userId; the
\* other handlers leave the repository alone.
Handle(p, repository) ==
    IF p.handler = "CreateUserHandler"
    THEN MapSet(repository, p.command.email,
                User(p.command.name, p.command.email))
    ELSE IF p.handler = "RollbackUserCreationHandler"
    THEN MapDelete(repository, p.command.userId)
    ELSE repository

Resume(f, p, fr) ==
    /\ runs' = [runs EXCEPT ![f] = fr]
    /\ dispatched' = [dispatched EXCEPT ![f] = Record(dispatched[f], p, fr)]
    /\ users' = Handle(fr.promise, users)
    /\ UNCHANGED <<steps, handlers, lastRegistered, replaced, mediator>>

\* run(commandBus) with a record of executed steps kept by the saga from
\* one run to the next.
StartRunKeepsRecord(f) ==
    LET kept == [IdleFrame EXCEPT !.executedSteps = runs[f].executedSteps]
    IN  /\ runs[f].pc \in {"idle", "done"}
        /\ runsStarted < MaxRuns
        /\ runsStarted' = runsStarted + 1
        /\ startedWith' = [startedWith EXCEPT ![f] = steps]
        /\ runs' = [runs EXCEPT ![f] = ForwardLoop(kept)]
        /\ dispatched' = [dispatched EXCEPT ![f] =
                             Record(<<>>, NoPromise, ForwardLoop(kept))]
        /\ users' = Handle(ForwardLoop(kept).promise, users)
        /\ UNCHANGED <<steps, handlers, lastRegistered, replaced, mediator>>

\* run(commandBus) is called: executedSteps = [], then the try block.
StartRun(f) ==
    /\ runs[f].pc \in {"idle", "done"}
    /\ runsStarted < MaxRuns
    /\ runsStarted' = runsStarted + 1
    /\ startedWith' = [startedWith EXCEPT ![f] = steps]
    /\ runs' = [runs EXCEPT ![f] = ForwardLoop(IdleFrame)]
    /\ dispatched' = [dispatched EXCEPT ![f] =
                         Record(<<>>, NoPromise, ForwardLoop(IdleFrame))]
    /\ users' = Handle(ForwardLoop(IdleFrame).promise, users)
    /\ UNCHANGED <<steps, handlers, lastRegistered, replaced, mediator>>

\* The awaited forward dispatch is fulfilled: the step is pushed on
\* executedSteps and the try loop goes on.
ForwardFulfilled(f) ==
    /\ runs[f].pc = "forward"
    /\ runs[f].promise.status = "pending"
    /\ Resume(f, Fulfilled(runs[f].promise),
              ForwardLoop([runs[f] EXCEPT
                  !.executedSteps = Append(@, runs[f].step)]))
    /\ UNCHANGED <<runsStarted, startedWith>>

\* The awaited forward dispatch is rejected: the catch block is entered.
ForwardRejected(f) ==
    /\ runs[f].pc = "forward"
    /\ MayReject(runs[f].promise)
    /\ Resume(f, Rejected(runs[f].promise), Catch(runs[f]))
    /\ UNCHANGED <<runsStarted, startedWith>>

\* The awaited compensation dispatch is fulfilled: the catch loop goes on.
CompensateFulfilled(f) ==
    /\ runs[f].pc = "compensate"
    /\ runs[f].promise.status = "pending"
    /\ Resume(f, Fulfilled(runs[f].promise), CompensationLoop(runs[f]))
    /\ UNCHANGED <<runsStarted, startedWith>>

\* The awaited compensation dispatch is rejected: the error leaves the catch
\* block, and run() with it.
CompensateRejected(f) ==
    /\ runs[f].pc = "compensate"
    /\ MayReject(runs[f].promise)
    /\ Resume(f, Rejected(runs[f].promise),
              Throw(runs[f], Rejected(runs[f].promise).reason))
    /\ UNCHANGED <<runsStarted, startedWith>>

\* ------------------------------------------- direct calls of the bus

\* A caller other than the saga: `await commandBus.execute(command)`.
CallExecute(f, command) ==
    /\ runs[f].pc \in {"idle", "done"}
    /\ Len(dispatched[f]) < MaxCalls
    /\ Resume(f, NoPromise,
              [IdleFrame EXCEPT !.pc = "execute", !.promise = Execute(command)])
    /\ UNCHANGED <<runsStarted, startedWith>>

\* The awaited execute() is fulfilled: the caller goes on.
ExecuteFulfilled(f) ==
    /\ runs[f].pc = "execute"
    /\ runs[f].promise.status = "pending"
    /\ Resume(f, Fulfilled(runs[f].promise), Return(runs[f]))
    /\ UNCHANGED <<runsStarted, startedWith>>

\* The awaited execute() is rejected: the error reaches the caller.
ExecuteRejected(f) ==
    /\ runs[f].pc = "execute"
    /\ MayReject(runs[f].promise)
    /\ Resume(f, Rejected(runs[f].promise),
              Throw(runs[f], Rejected(runs[f].promise).reason))
    /\ UNCHANGED <<runsStarted, startedWith>>

\* ------------------------------------------------------------ the callers

\* No activation is suspended.
Quiescent == \A f \in Frames : runs[f].pc \in {"idle", "done"}

\* The lowest frame that holds no live activation.
FreeFrame(f) ==
    /\ runs[f].pc \in {"idle", "done"}
    /\ \A g \in Frames : g < f => runs[g].pc \notin {"idle", "done"}

\* The caller of the saga's example usage: it registers a handler per command
\* type and builds the saga, then runs it, one run after the other.
Next ==
    \/ \E t \in CommandTypes, h \in HandlerIds :
          runsStarted = 0 /\ ~MapHas(handlers, t) /\ Register(t, h)
    \/ \E e \in Commands, c \in Commands \cup {undefined} :
          runsStarted = 0 /\ Len(steps) < MaxSteps /\ AddStep(e, c)
    \/ \E f \in Frames : Quiescent /\ FreeFrame(f) /\ StartRun(f)
    \/ \E f \in Frames : ForwardFulfilled(f)
    \/ \E f \in Frames : ForwardRejected(f)
    \/ \E f \in Frames : CompensateFulfilled(f)
    \/ \E f \in Frames : CompensateRejected(f)

Spec == Init /\ [][Next]_vars

\* The caller of the bus: it registers and replaces handlers at any time and
\* executes commands one after the other.
NextBus ==
    \/ \E t \in CommandTypes, h \in HandlerIds : Register(t, h)
    \/ \E f \in Frames, c \in Commands :
          Quiescent /\ FreeFrame(f) /\ CallExecute(f, c)
    \/ \E f \in Frames : ExecuteFulfilled(f)
    \/ \E f \in Frames : ExecuteRejected(f)

SpecBus == Init /\ [][NextBus]_vars

\* A caller that keeps building the saga: it registers a handler per command
\* type, then adds steps at any time, also while a run is suspended in a
\* dispatch and after a run has ended, and runs the saga, one run after the
\* other.
NextOpen ==
    \/ \E t \in CommandTypes, h \in HandlerIds :
          runsStarted = 0 /\ ~MapHas(handlers, t) /\ Register(t, h)
    \/ \E e \in Commands, c \in Commands \cup {undefined} :
          Len(steps) < MaxSteps /\ AddStep(e, c)
    \/ \E f \in Frames : Quiescent /\ FreeFrame(f) /\ StartRun(f)
    \/ \E f \in Frames : ForwardFulfilled(f)
    \/ \E f \in Frames : ForwardRejected(f)
    \/ \E f \in Frames : CompensateFulfilled(f)
    \/ \E f \in Frames : CompensateRejected(f)

SpecOpen == Init /\ [][NextOpen]_vars

\* The awaited promise of frame f settles and the run resumes.
Settle(f) ==
    \/ ForwardFulfilled(f)
    \/ ForwardRejected(f)
    \/ CompensateFulfilled(f)
    \/ CompensateRejected(f)

\* The saga's caller again, registering one and the same handler for the
\* command types it registers (which handler it is makes no difference to
\* run()).
NextLive ==
    \/ \E t \in CommandTypes :
          runsStarted = 0 /\ ~MapHas(handlers, t) /\ Register(t, "h1")
    \/ \E e \in Commands, c \in Commands \cup {undefined} :
          runsStarted = 0 /\ Len(steps) < MaxSteps /\ AddStep(e, c)
    \/ \E f \in Frames : Quiescent /\ FreeFrame(f) /\ StartRun(f)
    \/ \E f \in Frames : Settle(f)

\* That caller, with every dispatched handler resolving in the end and the
\* event loop resuming the run that awaits it: a suspended run is not
\* suspended for ever.
SpecLive ==
    Init /\ [][NextLive]_vars /\ WF_vars(\E f \in Frames : Settle(f))

\* -------------------------------------------------------------- the claims

Log(f) == dispatched[f]

\* The commands passed to commandBus.execute by frame f, in call order.
Calls(f) == [i \in 1..Len(Log(f)) |-> Log(f)[i].call.command]

\* The commands frame f dispatched as compensations, in call order.
CompensationCalls(f) ==
    LET IsCompensation(e) == e.phase = "compensate"
        picked == SelectSeq(Log(f), IsCompensation)
    IN  [i \in 1..Len(picked) |-> picked[i].call.command]

\* The positions in the record of frame f of the failed calls of a phase.
Failed(f, phase) ==
    { i \in 1..Len(Log(f)) :
         Log(f)[i].phase = phase /\ Log(f)[i].call.status = "rejected" }

\* The forward actions of the saga definition, in insertion order.
Forwards == [i \in 1..Len(steps) |-> steps[i].execute]

\* The compensate commands of the steps s, last step first, absent ones left out.
RECURSIVE Compensations(_)
Compensations(s) ==
    IF s = <<>> THEN <<>>
    ELSE (IF s[Len(s)].compensate = undefined THEN <<>>
          ELSE <<s[Len(s)].compensate>>)
         \o Compensations(SubSeq(s, 1, Len(s) - 1))

IsPrefix(s, t) == Len(s) <= Len(t) /\ s = SubSeq(t, 1, Len(s))

\* The dispatch sequence the saga definition prescribes when step k fails.
Unwinding(k) ==
    SubSeq(Forwards, 1, k) \o Compensations(SubSeq(steps, 1, k - 1))

\* C1: as long as no forward action of a run has failed, the calls the run
\* made to commandBus.execute are the forward actions s0, s1, ... of the
\* definition in insertion order, none skipped or repeated; when the run ends
\* they are all the forward actions, s0 .. sn.
C1_ForwardOrder ==
    \A f \in Frames :
        (runs[f].pc \in {"forward", "compensate", "done"}
            /\ Failed(f, "forward") = {})
        => /\ IsPrefix(Calls(f), Forwards)
           /\ runs[f].pc = "done" => Calls(f) = Forwards

\* A run of three steps, the first two with different forward actions, ended
\* with every forward action fulfilled.
C1_Witness ==
    \E f \in Frames :
        /\ runs[f].pc = "done"
        /\ Failed(f, "forward") = {}
        /\ Len(steps) = 3
        /\ steps[1].execute # steps[2].execute
        /\ Len(Log(f)) = 3

\* C2: when the forward action of step k failed and no compensation has
\* failed, the calls of the run are s0.forward .. sk.forward followed by the
\* compensate commands of s(k-1) .. s0, absent ones left out; when the run ends
\* they are all of them.  Neither sk's compensate nor a later forward action
\* is among them.
C2_ReverseCompensation ==
    \A f \in Frames : \A k \in Failed(f, "forward") :
        Failed(f, "compensate") = {}
        => /\ IsPrefix(Calls(f), Unwinding(k))
           /\ runs[f].pc = "done" => Calls(f) = Unwinding(k)

\* A run whose third step failed and whose two completed steps were
\* compensated, by different commands, both with success.
C2_Witness ==
    \E f \in Frames :
        /\ runs[f].pc = "done"
        /\ Failed(f, "forward") = {3}
        /\ Failed(f, "compensate") = {}
        /\ Len(Log(f)) = 5
        /\ Log(f)[4].call.command = steps[2].compensate
        /\ Log(f)[5].call.command = steps[1].compensate
        /\ steps[1].compensate # steps[2].compensate

\* C3: once a run whose forward action of step k failed has ended, the
\* compensate command of every completed step before k that has one has been
\* dispatched, whether or not a compensation failed on the way.
C3_BestEffortCompleteness ==
    \A f \in Frames : \A k \in Failed(f, "forward") :
        runs[f].pc = "done"
        => CompensationCalls(f) = Compensations(SubSeq(steps, 1, k - 1))

\* C4: a run whose forward action of step k failed ends rejected, with the
\* error of that dispatch as its reason.
C4_FailureReported ==
    \A f \in Frames : \A k \in Failed(f, "forward") :
        runs[f].pc = "done"
        => /\ runs[f].result.status = "rejected"
           /\ runs[f].result.reason = Log(f)[k].call.reason

\* The errors the result of a run carries.
Reported(f) ==
    IF runs[f].result.status = "rejected" THEN {runs[f].result.reason} ELSE {}

\* C5: a run whose forward action of step k failed and some of whose
\* compensations failed ends rejected; its result carries the forward
\* failure and the failure of every failed compensation.
C5_FailuresRetained ==
    \A f \in Frames : \A k \in Failed(f, "forward") :
        (runs[f].pc = "done" /\ Failed(f, "compensate") # {})
        => /\ runs[f].result.status = "rejected"
           /\ Log(f)[k].call.reason \in Reported(f)
           /\ \A j \in Failed(f, "compensate") :
                 Log(f)[j].call.reason \in Reported(f)

\* C6: a run that ended with all its forward actions fulfilled dispatched no
\* compensation, made as many calls as the definition has steps, and is
\* fulfilled.
C6_NoCompensationOnSuccess ==
    \A f \in Frames :
        (runs[f].pc = "done" /\ Failed(f, "forward") = {})
        => /\ \A i \in 1..Len(Log(f)) : Log(f)[i].phase = "forward"
           /\ Len(Log(f)) = Len(steps)
           /\ runs[f].result.status = "fulfilled"

\* A run of at least two steps, one of them with a compensate command, ended
\* with every forward action fulfilled.
C6_Witness ==
    \E f \in Frames :
        /\ runs[f].pc = "done"
        /\ Failed(f, "forward") = {}
        /\ Len(steps) >= 2
        /\ \E i \in 1..Len(steps) : steps[i].compensate # undefined
        /\ runs[f].result.status = "fulfilled"

\* C7: every run of a saga without steps has ended as soon as it is called,
\* fulfilled and without a call to the dispatcher, whatever the registry
\* holds and whichever run it is.
C7_EmptyRun ==
    \A f \in Frames :
        (runs[f].pc # "idle" /\ Len(steps) = 0)
        => /\ runs[f].pc = "done"
           /\ runs[f].result.status = "fulfilled"
           /\ Log(f) = <<>>

\* The second run of a saga without steps, with a handler registered.
C7_Witness ==
    \E f \in Frames :
        /\ runs[f].pc = "done"
        /\ Len(steps) = 0
        /\ runsStarted = 2
        /\ handlers # <<>>

\* C8: a forward dispatch of step k that found no handler invoked none and
\* was not repeated, no forward action follows it, and once the run has ended
\* the compensate commands of all the steps completed before k have been
\* dispatched, last step first.
C8_NoHandlerTriggersCompensation ==
    \A f \in Frames : \A k \in Failed(f, "forward") :
        Log(f)[k].call.handler = NoHandler
        => /\ Log(f)[k].call.invoked = 0
           /\ Log(f)[k].call.reason = NoHandlerError(Log(f)[k].call.command.type)
           /\ \A i \in (k + 1)..Len(Log(f)) : Log(f)[i].phase = "compensate"
           /\ runs[f].pc = "done"
                 => CompensationCalls(f) = Compensations(SubSeq(steps, 1, k - 1))

\* The settled calls of frame f, as positions in its record.
Settled(f) ==
    { i \in 1..Len(Log(f)) : Log(f)[i].call.status \in {"fulfilled", "rejected"} }

\* What C9 says of a settled call apart from the shape of a handler's
\* failure: the handler registered for the command's type when the call was
\* made was invoked, once; the call succeeded exactly if there was one and it
\* completed without raising; it failed with the no-handler error, invoking
\* nothing, if there was none.
SingleDispatch(e) ==
    /\ e.call.invoked = IF e.latest = NoHandler THEN 0 ELSE 1
    /\ e.call.status = "fulfilled"
          <=> (e.latest # NoHandler /\ e.call.cause = NoReason)
    /\ e.latest = NoHandler
          => /\ e.call.status = "rejected"
             /\ e.call.reason = NoHandlerError(e.call.command.type)

C10_LastRegistrationWins ==
    /\ \A i, j \in 1..Len(handlers) :
          handlers[i].key = handlers[j].key => i = j
    /\ \A t \in CommandTypes : MapGet(handlers, t) = lastRegistered[t]
    /\ \A f \in Frames : \A i \in 1..Len(Log(f)) :
          /\ Log(f)[i].call.handler = Log(f)[i].latest
          /\ Log(f)[i].call.invoked <= 1

\* Two calls of execute for the same command type invoked different
\* handlers, the second one the handler registered in between, while a
\* handler is registered for the other type too.
C10_Witness ==
    \E f \in Frames : \E i, j \in 1..Len(Log(f)) :
        /\ i < j
        /\ Log(f)[i].call.command = Log(f)[j].call.command
        /\ Log(f)[i].call.handler \in HandlerIds
        /\ Log(f)[j].call.handler \in HandlerIds
        /\ Log(f)[i].call.handler # Log(f)[j].call.handler
        /\ Log(f)[j].call.command.type \in replaced
        /\ Len(handlers) = 2

\* C11: once run() has been called on the saga, no call of addStep changes
\* its step sequence.
C11_AddStepRefusedAfterStart ==
    [][runsStarted > 0 => steps' = steps]_vars

\* A caller that builds a saga of steps that create the user, as the example
\* does, and runs the same saga instance a second time while the first run
\* is suspended in a dispatch: `saga.run(bus)` without awaiting the run
\* before it.  Two runs at most are suspended at once.
NextConcurrent ==
    \/ \E t \in CommandTypes :
          runsStarted = 0 /\ ~MapHas(handlers, t) /\ Register(t, "h1")
    \/ \E c \in Commands \cup {undefined} :
          /\ runsStarted = 0 /\ Len(steps) < MaxSteps
          /\ AddStep(CreateUserCommand("John Doe", "john@example.com"), c)
    \/ \E f \in Frames :
          /\ Cardinality({g \in Frames :
                             runs[g].pc \notin {"idle", "done"}}) < 2
          /\ FreeFrame(f) /\ StartRun(f)
    \/ \E f \in Frames : Settle(f)

SpecConcurrent == Init /\ [][NextConcurrent]_vars

\* The commands a caller of the example's bus dispatches: users created
\* under two emails, and rollbacks whose userId is the example's "user123"
\* or one of the emails.
RepositoryCommands ==
    { CreateUserCommand("John Doe", "john@example.com"),
      CreateUserCommand("Jane Doe", "jane@example.com"),
      RollbackUserCreationCommand("user123"),
      RollbackUserCreationCommand("jane@example.com") }

\* The setup of the saga example, CREATE_USER handled by a CreateUserHandler
\* and ROLLBACK_USER_CREATION by a RollbackUserCreationHandler on the same
\* repository, and a caller that has the bus execute commands one after the
\* other, as the saga does with the commands of its steps.
NextRepository ==
    \/ ~MapHas(handlers, "CREATE_USER")
          /\ Register("CREATE_USER", "CreateUserHandler")
    \/ ~MapHas(handlers, "ROLLBACK_USER_CREATION")
          /\ Register("ROLLBACK_USER_CREATION", "RollbackUserCreationHandler")
    \/ \E f \in Frames, c \in RepositoryCommands :
          Quiescent /\ FreeFrame(f) /\ CallExecute(f, c)
    \/ \E f \in Frames : ExecuteFulfilled(f)
    \/ \E f \in Frames : ExecuteRejected(f)

SpecRepository == Init /\ [][NextRepository]_vars

\* ------------------------------------------------- the mediator example

\* The calls of save and deleteByEmail a behaviour makes at most.
MaxMediatorCalls == 5

\* The users of the mediator example: Jane Doe, a second user with Jane's
\* email, and a user with another email.
MediatorUsers ==
    { User("Jane Doe", "jane@example.com"),
      User("J. Doe", "jane@example.com"),
      User("John Doe", "john@example.com") }

Emails == { u.email : u \in MediatorUsers }

\* An email the NotificationService sends (it logs a line): its kind, its
\* addressee, and whether the repository held a user of that email when it
\* was sent.
Email(kind, email, m) ==
    [kind |-> kind, email |-> email, stored |-> MapHas(m.users, email)]

\* NotificationService.sendWelcomeEmail(email)
SendWelcomeEmail(email, m) ==
    [m EXCEPT !.outbox = Append(@, Email("welcome", email, m))]

\* NotificationService.sendAccountClosureEmail(email)
SendAccountClosureEmail(email, m) ==
    [m EXCEPT !.outbox = Append(@, Email("closure", email, m))]

\* UserMediator.notify(sender, event)
Notify(sender, event, m) ==
    IF event = "UserCreated"
    THEN SendWelcomeEmail(sender.email, m)
    ELSE IF event = "UserDeleted"
    THEN SendAccountClosureEmail(sender.email, m)
    ELSE m

\* The call is added to the record of the calls made to the repository,
\* with whether a user of that email was stored when it was made.
Called(op, email, m) ==
    [m EXCEPT !.calls = Append(mediator.calls,
                 [op |-> op, email |-> email,
                  stored |-> MapHas(mediator.users, email)])]

\* UserRepository.save(user): set, then notify.  notify and the send run
\* inside the call, before its first suspension.
Save(user) ==
    /\ Len(mediator.calls) < MaxMediatorCalls
    /\ mediator' = Called("save", user.email,
           Notify(user, "UserCreated",
                  [mediator EXCEPT !.users = MapSet(@, user.email, user)]))
    /\ UNCHANGED <<steps, handlers, runs, dispatched, lastRegistered,
                   replaced, runsStarted, startedWith, users>>

\* deleteByEmail that notifies of a deletion whether or not a user was
\* stored.
DeleteByEmailAlwaysNotifies(email) ==
    /\ Len(mediator.calls) < MaxMediatorCalls
    /\ mediator' = Called("deleteByEmail", email,
           Notify(User("", email), "UserDeleted",
                  [mediator EXCEPT !.users = MapDelete(@, email)]))
    /\ UNCHANGED <<steps, handlers, runs, dispatched, lastRegistered,
                   replaced, runsStarted, startedWith, users>>

\* UserRepository.deleteByEmail(email): get; if a user is stored, delete,
\* then notify with the user that was stored.
DeleteByEmail(email) ==
    /\ Len(mediator.calls) < MaxMediatorCalls
    /\ mediator' = Called("deleteByEmail", email,
           IF MapHas(mediator.users, email)
           THEN Notify(MapGet(mediator.users, email), "UserDeleted",
                       [mediator EXCEPT !.users = MapDelete(@, email)])
           ELSE mediator)
    /\ UNCHANGED <<steps, handlers, runs, dispatched, lastRegistered,
                   replaced, runsStarted, startedWith, users>>

\* A caller of the mediator example's repository.
NextMediator ==
    \/ \E user \in MediatorUsers : Save(user)
    \/ \E email \in Emails : DeleteByEmail(email)

SpecMediator == Init /\ [][NextMediator]_vars

\* C15: the forward actions a run dispatches are among the steps the saga had
\* when the run was called: the run makes no forward dispatch beyond them.
C15_StepsFixedAtStart ==
    \A f \in Frames : \A i \in 1..Len(Log(f)) :
        Log(f)[i].phase = "forward" => i <= Len(startedWith[f])

\* C12: with every dispatch resolving, every run ends: again and again no
\* run is suspended, so that a run suspended now has ended by then; a run
\* that has ended has one outcome, fulfilled or rejected, and awaits nothing;
\* and as long as run() is not called again its outcome and its record of
\* calls stay as they are.
C12_Termination ==
    /\ []<>Quiescent
    /\ [](\A f \in Frames :
             runs[f].pc = "done"
             => /\ runs[f].result.status \in {"fulfilled", "rejected"}
                /\ runs[f].promise = NoPromise)
    /\ [][\A f \in Frames :
             (runs[f].pc = "done" /\ runsStarted' = runsStarted)
             => (runs'[f] = runs[f] /\ dispatched'[f] = dispatched[f])]_vars

\* A run has ended after a compensation failed for want of a handler.
C12_Witness ==
    \E f \in Frames : \E j \in Failed(f, "compensate") :
        /\ runs[f].pc = "done"
        /\ Log(f)[j].call.handler = NoHandler
        /\ runs[f].result.status = "rejected"

\* C13: of the calls a run made to commandBus.execute only the last one can
\* be unsettled, and it is the one the run awaits: a forward action or a
\* compensation is dispatched only when every earlier dispatch of the run,
\* forward or compensation, has resolved.
C13_OneDispatchInFlight ==
    \A f \in Frames : \A i \in 1..Len(Log(f)) :
        /\ i < Len(Log(f)) => i \in Settled(f)
        /\ i \notin Settled(f)
              => /\ runs[f].promise = Log(f)[i].call
                 /\ runs[f].pc = Log(f)[i].phase

\* A run suspended in its second compensation, after three forward
\* dispatches and one compensation that resolved.
C13_Witness ==
    \E f \in Frames :
        /\ Len(Log(f)) = 5
        /\ Log(f)[4].phase = "compensate"
        /\ Log(f)[5].phase = "compensate"
        /\ 5 \notin Settled(f)
        /\ runs[f].pc = "compensate"

\* The steps whose forward action succeeded in the run of frame f, in the
\* order of their dispatch.
Completed(f) ==
    LET IsDone(e) == e.phase = "forward" /\ e.call.status = "fulfilled"
    IN  SubSeq(steps, 1, Len(SelectSeq(Log(f), IsDone)))

C16_ExecutedIsPrefix ==
    \A f \in Frames :
        /\ runs[f].pc = "forward"
              => /\ runs[f].executedSteps = SubSeq(steps, 1, runs[f].it - 1)
                 /\ runs[f].executedSteps = Completed(f)
        /\ \A k \in Failed(f, "forward") :
              runs[f].pc # "forward"
              => /\ Reverse(runs[f].executedSteps) = SubSeq(steps, 1, k - 1)
                 /\ Reverse(runs[f].executedSteps) = Completed(f)
        /\ (runs[f].pc = "done" /\ Failed(f, "forward") = {})
              => runs[f].executedSteps = steps

\* A run suspended in the forward dispatch of its third step, with its first
\* two steps, which differ, in the record.
C16_Witness ==
    \E f \in Frames :
        /\ runs[f].pc = "forward"
        /\ runs[f].it = 3
        /\ runs[f].executedSteps = <<steps[1], steps[2]>>
        /\ steps[1] # steps[2]

\* The forward actions frame f dispatched, in call order.
ForwardCalls(f) ==
    LET IsForward(e) == e.phase = "forward"
        picked == SelectSeq(Log(f), IsForward)
    IN  [i \in 1..Len(picked) |-> picked[i].call.command]

\* C17: a call of run() after an earlier run has ended starts with an empty
\* record and with the dispatch of the first step (or ends at once when there
\* is none); in such a later run the forward actions dispatched are those of
\* the first steps in order, the record holds as many steps as forward
\* actions succeeded in this run, and the compensations dispatched are
\* compensate commands of these steps, last first.
C17_NoRunToRunMemory ==
    /\ [][\A f \in Frames :
             (runsStarted >= 1 /\ runsStarted' = runsStarted + 1
                /\ runs[f].pc = "done" /\ runs'[f].pc # "done")
             => /\ runs'[f].executedSteps = <<>>
                /\ runs'[f].pc = "forward" /\ runs'[f].it = 1
                /\ Len(dispatched'[f]) = 1
                /\ dispatched'[f][1].call.command = steps[1].execute]_vars
    /\ [](runsStarted >= 2
            => \A f \in Frames :
                  /\ IsPrefix(ForwardCalls(f), Forwards)
                  /\ Len(runs[f].executedSteps) = Len(Completed(f))
                  /\ IsPrefix(CompensationCalls(f),
                              Compensations(Completed(f))))

\* The second run of a saga of three steps, after the first run has ended:
\* its second step has failed, and it is suspended in the compensation of its
\* first step.
C17_Witness ==
    \E f \in Frames :
        /\ runsStarted = 2
        /\ Len(steps) = 3
        /\ runs[f].pc = "compensate"
        /\ Failed(f, "forward") = {2}
        /\ CompensationCalls(f) = <<steps[1].compensate>>

\* The keys of a Map.
KeysOf(m) == { m[i].key : i \in 1..Len(m) }

\* The Maps m and n hold the same entries, the one of `key` apart.
SameExcept(m, n, key) ==
    \A k \in (KeysOf(m) \cup KeysOf(n)) \ {key} :
        MapHas(m, k) = MapHas(n, k) /\ MapGet(m, k) = MapGet(n, k)

\* C18: every entry of the saga's repository is keyed by the email of its
\* user.  A dispatch of ROLLBACK_USER_CREATION(id) to the rollback handler
\* leaves no entry keyed id and every other entry as it was, so the user
\* CREATE_USER(name, email) stored is still there after it unless id is that
\* email; a dispatch of CREATE_USER(name, email) stores that user under
\* email and leaves every other entry as it was; nothing else changes the
\* repository.
C18_RollbackDeletesByUserId ==
    /\ [](\A i \in 1..Len(users) : users[i].key = users[i].value.email)
    /\ [][\A f \in Frames :
             IF Len(dispatched'[f]) > Len(dispatched[f])
             THEN LET p == dispatched'[f][Len(dispatched'[f])].call
                  IN  /\ p.handler = "RollbackUserCreationHandler"
                            => /\ ~MapHas(users', p.command.userId)
                               /\ SameExcept(users, users', p.command.userId)
                      /\ p.handler = "CreateUserHandler"
                            => /\ MapGet(users', p.command.email)
                                     = User(p.command.name, p.command.email)
                               /\ SameExcept(users, users', p.command.email)
                      /\ p.handler = NoHandler => users' = users
             ELSE dispatched'[f] # dispatched[f] => users' = users]_vars

\* John and Jane have been created, in this order, and the rollback with
\* Jane's email as userId has been handled: John's entry is the only one.
C18_Witness ==
    \E f \in Frames :
        /\ Len(Log(f)) = 3
        /\ Log(f)[1].call.command
              = CreateUserCommand("John Doe", "john@example.com")
        /\ Log(f)[2].call.command
              = CreateUserCommand("Jane Doe", "jane@example.com")
        /\ Log(f)[3].call.command
              = RollbackUserCreationCommand("jane@example.com")
        /\ \A i \in 1..3 : Log(f)[i].call.handler \in RepositoryHandlers
        /\ KeysOf(users) = {"john@example.com"}

\* The emails of a kind sent to an address, in the order they were sent.
Sent(kind, email) ==
    LET Is(m) == m.kind = kind /\ m.email = email
    IN  SelectSeq(mediator.outbox, Is)

\* The calls of deleteByEmail(email) made while a user of that email was
\* stored.
DeletionsOfStored(email) ==
    LET Is(c) == c.op = "deleteByEmail" /\ c.email = email /\ c.stored
    IN  SelectSeq(mediator.calls, Is)

\* C19: a call deleteByEmail(e) with a user of email e stored removes that
\* entry and no other and sends one closure email, to e and nothing else;
\* with no such user it sends nothing and leaves the store as it is.  Every
\* closure email was sent when its addressee was no longer stored, there are
\* as many closure emails for e as calls deleteByEmail(e) that found e
\* stored, and never more than welcome emails for e.
C19_ClosureOnlyForStored ==
    /\ [][\A e \in Emails :
             (Len(mediator'.calls) > Len(mediator.calls)
                /\ mediator'.calls[Len(mediator'.calls)].op = "deleteByEmail"
                /\ mediator'.calls[Len(mediator'.calls)].email = e)
             => IF MapHas(mediator.users, e)
                THEN /\ ~MapHas(mediator'.users, e)
                     /\ SameExcept(mediator.users, mediator'.users, e)
                     /\ mediator'.outbox
                           = Append(mediator.outbox,
                                [kind |-> "closure", email |-> e,
                                 stored |-> FALSE])
                ELSE /\ mediator'.users = mediator.users
                     /\ mediator'.outbox = mediator.outbox]_vars
    /\ [](\A e \in Emails :
             /\ \A i \in 1..Len(Sent("closure", e)) :
                   ~Sent("closure", e)[i].stored
             /\ Len(Sent("closure", e)) = Len(DeletionsOfStored(e))
             /\ Len(Sent("closure", e)) <= Len(Sent("welcome", e)))

\* Two users were saved under Jane's email and one under John's, and Jane's
\* email was deleted twice: one closure email, to Jane, after two welcome
\* emails to her, and John is still stored.
C19_Witness ==
    /\ Len(mediator.calls) = 5
    /\ mediator.calls[4].op = "deleteByEmail" /\ mediator.calls[4].stored
    /\ mediator.calls[5].op = "deleteByEmail" /\ ~mediator.calls[5].stored
    /\ mediator.calls[5].email = "jane@example.com"
    /\ Len(Sent("closure", "jane@example.com")) = 1
    /\ Len(Sent("welcome", "jane@example.com")) = 2
    /\ KeysOf(mediator.users) = {"john@example.com"}

====
